---- MODULE Spec2Model ----
(***************************************************************************)
(* Model of custom_components/maxstorage_ultimate/sensor.py: the sensor    *)
(* platform of the Max Storage Ultimate integration.  The descriptor table *)
(* SENSOR_TYPES, the entity class MaxStorageSensor and the platform setup  *)
(* async_setup_entry are translated from the source.  The update           *)
(* coordinator and the host's entity registry are collaborators outside    *)
(* sensor.py; they appear as the environment actions Refresh and Notify    *)
(* and as the registry variables add_calls / entities.                     *)
(***************************************************************************)
EXTENDS Integers, Sequences, FiniteSets, TLC

VARIABLES
    device_info,   \* entry -> coordinator.api.device_info (a Python dict)
    data,          \* entry -> coordinator.data (None before the first poll)
    status,        \* entry -> "pending" | "loaded" | "failed" (platform setup)
    add_calls,     \* the batches handed to async_add_entities, in call order
    entities,      \* the adapters the host has registered, in order
    published,     \* adapter -> number of async_write_ha_state calls
    notified,      \* adapter -> number of update notifications delivered
    lastRead       \* the property read made by the latest step, if any

vars == <<device_info, data, status, add_calls, entities, published,
          notified, lastRead>>

(***************************************************************************)
(* Bounds.                                                                 *)
(***************************************************************************)
MaxNotify == 2

(***************************************************************************)
(* Python values.  Every value is a record of the same shape so that       *)
(* values of different Python types can be compared.                       *)
(***************************************************************************)
EmptyDict == [k \in {} |-> 0]

PyNone == [tag |-> "NoneType", i |-> 0, s |-> "", d |-> EmptyDict]

PyInt(n) == [tag |-> "int", i |-> n, s |-> "", d |-> EmptyDict]

PyStr(str) == [tag |-> "str", i |-> 0, s |-> str, d |-> EmptyDict]

PyBool(b) == [tag |-> "bool", i |-> IF b THEN 1 ELSE 0, s |-> "", d |-> EmptyDict]

PyDict(f) == [tag |-> "dict", i |-> 0, s |-> "", d |-> f]

\* The outcome of evaluating an expression: a value, or a raised exception.
Return(v) == [exc |-> "", value |-> v]

Raise(e) == [exc |-> e, value |-> PyNone]

\* obj[k] for a string key k: a dict looks the key up and raises KeyError
\* when it is absent; None, numbers, booleans and strings raise TypeError.
GetItem(obj, k) ==
    IF obj.tag # "dict" THEN Raise("TypeError")
    ELSE IF k \in DOMAIN obj.d THEN Return(obj.d[k])
    ELSE Raise("KeyError")

\* obj[path[1]][path[2]]..., stopping at the first exception.
RECURSIVE GetPath(_, _)
GetPath(obj, path) ==
    IF path = <<>> THEN Return(obj)
    ELSE LET r == GetItem(obj, Head(path))
         IN  IF r.exc # "" THEN r ELSE GetPath(r.value, Tail(path))

\* Variant: a case-insensitive comparison.
EqualsTrueLiteral_anycase(v) == v.tag = "str" /\ v.s \in {"true", "True", "TRUE"}

\* v == "true": only the string "true" compares equal to it.
EqualsTrueLiteral(v) == v.tag = "str" /\ v.s = "true"

(***************************************************************************)
(* The descriptor table.  value_fn is recorded by the subscript path its   *)
(* lambda reads and by whether the lambda compares the result with "true". *)
(***************************************************************************)
MaxStorageSensorDescription(key, tkey, icon, path, compare, unit, sclass, dclass) ==
    [key |-> key, translation_key |-> tkey, icon |-> icon,
     path |-> path, compare |-> compare,
     native_unit_of_measurement |-> unit, state_class |-> sclass,
     device_class |-> dclass]

NumericDescriptions == <<
    MaxStorageSensorDescription("batterySoC", "battery_soc", "mdi:battery",
        <<"batterySoC">>, FALSE, "%", "measurement", "battery"),
    MaxStorageSensorDescription("batteryCapacity", "battery_capacity", "mdi:battery",
        <<"batteryCapacity">>, FALSE, "Wh", "measurement", "energy_storage"),
    MaxStorageSensorDescription("batteryPower", "battery_power", "mdi:battery",
        <<"batteryPower">>, FALSE, "W", "measurement", "power"),
    MaxStorageSensorDescription("gridPower", "grid_power", "mdi:transmission-tower",
        <<"gridPower">>, FALSE, "W", "measurement", "power"),
    MaxStorageSensorDescription("usagePower", "usage_power", "mdi:transmission-tower",
        <<"usagePower">>, FALSE, "W", "measurement", "power"),
    MaxStorageSensorDescription("plantPower", "plant_power", "mdi:solar-power",
        <<"plantPower">>, FALSE, "W", "measurement", "power"),
    MaxStorageSensorDescription("storage_dc_power", "storageDCPower", "mdi:solar-power",
        <<"storageDCPower">>, FALSE, "W", "measurement", "power"),
    MaxStorageSensorDescription("mppt1Power", "mppt1_power", "mdi:solar-power",
        <<"storageMPPT1Power">>, FALSE, "W", "measurement", "power"),
    MaxStorageSensorDescription("mppt2Power", "mppt2_power", "mdi:solar-power",
        <<"storageMPPT2Power">>, FALSE, "W", "measurement", "power") >>

FlagDescriptions == <<
    MaxStorageSensorDescription("deviceInUpdate", "device_in_update", "mdi:update",
        <<"SpecialState", "deviceInUpdate">>, TRUE, "", "", ""),
    MaxStorageSensorDescription("dcSwitchOff", "dc_switch_off", "mdi:toggle-switch-off",
        <<"SpecialState", "dcSwitchOff">>, TRUE, "", "", ""),
    MaxStorageSensorDescription("gridCodeUnknown", "grid_code_unknown", "mdi:help",
        <<"SpecialState", "gridCodeUnknown">>, TRUE, "", "", ""),
    MaxStorageSensorDescription("inWinterMode", "in_winter_mode", "mdi:snowflake",
        <<"SpecialState", "inWinterMode">>, TRUE, "", "", ""),
    MaxStorageSensorDescription("inBMZEqualization", "in_bmz_equalization", "mdi:battery-50",
        <<"SpecialState", "inBMZEqualization">>, TRUE, "", "", ""),
    MaxStorageSensorDescription("inPeakShaving", "in_peak_shaving", "mdi:flash",
        <<"SpecialState", "inPeakShaving">>, TRUE, "", "", ""),
    MaxStorageSensorDescription("inOptimizationLimit", "in_optimization_limit", "mdi:tune",
        <<"SpecialState", "inOptimizationLimit">>, TRUE, "", "", ""),
    MaxStorageSensorDescription("inBatteryCalibration", "in_battery_calibration", "mdi:battery-sync",
        <<"SpecialState", "inBatteryCalibration">>, TRUE, "", "", ""),
    MaxStorageSensorDescription("noPowerMeter", "no_power_meter", "mdi:diameter-variant",
        <<"SpecialState", "noPowerMeter">>, TRUE, "", "", ""),
    MaxStorageSensorDescription("gridError", "grid_error", "mdi:alert-circle-outline",
        <<"SpecialState", "gridError">>, TRUE, "", "", ""),
    MaxStorageSensorDescription("gridLocked", "grid_locked", "mdi:lock",
        <<"SpecialState", "gridLocked">>, TRUE, "", "", ""),
    MaxStorageSensorDescription("islandActive", "island_active", "mdi:island",
        <<"SpecialState", "islandActive">>, TRUE, "", "", ""),
    MaxStorageSensorDescription("serviceMode", "service_mode", "mdi:toolbox-outline",
        <<"SpecialState", "serviceMode">>, TRUE, "", "", "") >>

\* Variant: the plant-power row pasted a second time at the end of the table.
SENSOR_TYPES_dup ==
    NumericDescriptions \o FlagDescriptions \o <<NumericDescriptions[6]>>

SENSOR_TYPES == NumericDescriptions \o FlagDescriptions

\* Variant: lookups with a default (dict.get) instead of subscripts.
value_fn_default(description, snapshot) ==
    LET r == GetPath(snapshot, description.path)
    IN  IF r.exc = "KeyError"
        THEN Return(IF description.compare THEN PyBool(FALSE) ELSE PyNone)
        ELSE IF ~description.compare \/ r.exc # "" THEN r
        ELSE Return(PyBool(EqualsTrueLiteral(r.value)))

\* Variant: watt readings converted to kilowatts.
value_fn_scaled(description, snapshot) ==
    LET r == GetPath(snapshot, description.path)
    IN  IF r.exc # "" THEN r
        ELSE IF description.compare THEN Return(PyBool(EqualsTrueLiteral(r.value)))
        ELSE IF description.native_unit_of_measurement = "W" /\ r.value.tag = "int"
        THEN Return(PyInt(r.value.i \div 1000))
        ELSE r

\* description.value_fn(data)
value_fn(description, snapshot) ==
    LET r == GetPath(snapshot, description.path)
    IN  IF ~description.compare \/ r.exc # "" THEN r
        ELSE Return(PyBool(EqualsTrueLiteral(r.value)))

\* description.attr_fn(data): the default, lambda _: {}
attr_fn(description, snapshot) == Return(PyDict(EmptyDict))

(***************************************************************************)
(* MaxStorageSensor.                                                       *)
(***************************************************************************)
\* Variant: the id built from description.key.
unique_id_key(ident, description) == ident \o "_" \o description.key

\* Variant: the id built from the integration's domain, not the device.
unique_id_domain(ident, description) ==
    "maxstorage_ultimate" \o "_" \o description.translation_key

\* f"{coordinator.api.device_info['Ident']}_{description.translation_key}"
unique_id(ident, description) == ident \o "_" \o description.translation_key

\* MaxStorageSensor(coordinator, description): the constructed adapter, or
\* the exception raised while reading the device's identity.  The string
\* form of a non-string Ident is outside the inputs modelled here.
MaxStorageSensor(coordinator, i) ==
    LET ident == GetItem(device_info[coordinator], "Ident")
    IN  IF ident.exc # "" THEN [exc |-> ident.exc, entity |-> <<>>]
        ELSE [exc |-> "",
              entity |-> [coordinator |-> coordinator,
                          entity_description |-> i,
                          _attr_unique_id |->
                              unique_id(ident.value.s, SENSOR_TYPES[i])]]

\* Variant: a value kept by the update handler, empty until it first runs.
native_value_cached(self) ==
    IF published[self] = 0 THEN Return(PyNone)
    ELSE value_fn(SENSOR_TYPES[entities[self].entity_description],
                  data[entities[self].coordinator])

\* self.native_value
native_value(self) ==
    value_fn(SENSOR_TYPES[entities[self].entity_description],
             data[entities[self].coordinator])

\* self.extra_state_attributes
extra_state_attributes(self) ==
    attr_fn(SENSOR_TYPES[entities[self].entity_description],
            data[entities[self].coordinator])

\* Variant: repeated notifications coalesced into the first write.
_handle_coordinator_update_once(self) ==
    IF published[self] >= 1 THEN published
    ELSE [published EXCEPT ![self] = @ + 1]

\* self._handle_coordinator_update(): one async_write_ha_state call.
_handle_coordinator_update(self) == [published EXCEPT ![self] = @ + 1]

(***************************************************************************)
(* Inputs: device identities and telemetry snapshots.                      *)
(***************************************************************************)
Idents == {"A1", "A1_battery"}

DeviceInfo(id) == PyDict([k \in {"Ident"} |-> PyStr(id)])

\* Device metadata with and without the Ident entry.
DeviceInfos ==
    {DeviceInfo(id) : id \in Idents}
    \cup {PyDict([k \in {"Type"} |-> PyStr("MaxStorage")])}

TopFields == {SENSOR_TYPES[i].path[1] : i \in 1..Len(NumericDescriptions)}

FlagFields ==
    {SENSOR_TYPES[i].path[2] :
        i \in (Len(NumericDescriptions) + 1)..Len(SENSOR_TYPES)}

BaseValue == PyInt(230)

Variants == {"absent", "alt", "odd"}

VariantsOf(field) == IF field \in TopFields THEN {"absent", "alt"} ELSE Variants

\* The value an odd field carries.
VariantValue(field, variant) ==
    IF field \in TopFields THEN PyInt(1500)
    ELSE (IF variant = "alt" THEN PyStr("true") ELSE PyStr("True"))

\* A payload in which every numeric field is BaseValue and every flag is
\* "false", except the field odd, which is absent or carries another value.
Snapshot(odd, variant, withSpecialState) ==
    LET present(F) == {k \in F : ~(k = odd /\ variant = "absent")}
        val(k, base) == IF k = odd THEN VariantValue(k, variant) ELSE base
        special == [k \in present(FlagFields) |-> val(k, PyStr("false"))]
        keys == present(TopFields) \cup
                (IF withSpecialState THEN {"SpecialState"} ELSE {})
    IN  PyDict([k \in keys |->
                   IF k = "SpecialState" THEN PyDict(special)
                   ELSE val(k, BaseValue)])

Snapshots ==
    {Snapshot("", "alt", w) : w \in BOOLEAN}
    \cup UNION {{Snapshot(f, v, TRUE) : v \in VariantsOf(f)} :
                   f \in TopFields \cup FlagFields}
    \cup {PyDict([k \in {"batteryPower"} |-> PyInt(1500)])}

SampleSnapshots == {Snapshot("", "alt", TRUE)}

(***************************************************************************)
(* State machine.                                                          *)
(***************************************************************************)
Entries == DOMAIN device_info

NoRead == [entity |-> 0, kind |-> "", result |-> Return(PyNone)]

InitWith(infos) ==
    /\ device_info \in infos
    /\ data = [e \in DOMAIN device_info |-> PyNone]
    /\ status = [e \in DOMAIN device_info |-> "pending"]
    /\ add_calls = <<>>
    /\ entities = <<>>
    /\ published = <<>>
    /\ notified = <<>>
    /\ lastRead = NoRead

\* Variant: async_add_entities called once per sensor.
async_setup_entry_each(e) ==
    /\ status[e] = "pending"
    /\ LET built == [i \in 1..Len(SENSOR_TYPES) |-> MaxStorageSensor(e, i)]
           failed == \E i \in DOMAIN built : built[i].exc # ""
           sensors == [i \in DOMAIN built |-> built[i].entity]
       IN  IF failed
           THEN /\ status' = [status EXCEPT ![e] = "failed"]
                /\ UNCHANGED <<add_calls, entities, published, notified>>
           ELSE /\ status' = [status EXCEPT ![e] = "loaded"]
                /\ add_calls' = add_calls \o [i \in DOMAIN sensors |-> <<sensors[i]>>]
                /\ entities' = entities \o sensors
                /\ published' = published \o [i \in DOMAIN sensors |-> 0]
                /\ notified' = notified \o [i \in DOMAIN sensors |-> 0]
    /\ lastRead' = NoRead
    /\ UNCHANGED <<device_info, data>>

\* async_setup_entry(hass, config, async_add_entities)
async_setup_entry(e) ==
    /\ status[e] = "pending"
    /\ LET built == [i \in 1..Len(SENSOR_TYPES) |-> MaxStorageSensor(e, i)]
           failed == \E i \in DOMAIN built : built[i].exc # ""
           sensors == [i \in DOMAIN built |-> built[i].entity]
       IN  IF failed
           THEN /\ status' = [status EXCEPT ![e] = "failed"]
                /\ UNCHANGED <<add_calls, entities, published, notified>>
           ELSE /\ status' = [status EXCEPT ![e] = "loaded"]
                /\ add_calls' = Append(add_calls, sensors)
                /\ entities' = entities \o sensors
                /\ published' = published \o [i \in DOMAIN sensors |-> 0]
                /\ notified' = notified \o [i \in DOMAIN sensors |-> 0]
    /\ lastRead' = NoRead
    /\ UNCHANGED <<device_info, data>>

\* The coordinator replaces its snapshot with a freshly polled payload.
RefreshFrom(e, payloads) ==
    /\ \E snapshot \in payloads : data' = [data EXCEPT ![e] = snapshot]
    /\ data'[e] # data[e]
    /\ lastRead' = NoRead
    /\ UNCHANGED <<device_info, status, add_calls, entities, published, notified>>

Refresh(e) == RefreshFrom(e, Snapshots)

RefreshSample(e) == RefreshFrom(e, SampleSnapshots)

Listeners(e) == {i \in DOMAIN entities : entities[i].coordinator = e}

\* The coordinator announces a completed update cycle to every listener.
Notify(e) ==
    /\ Listeners(e) # {}
    /\ \A i \in Listeners(e) : notified[i] < MaxNotify
    /\ published' = [i \in DOMAIN published |->
                        IF i \in Listeners(e)
                        THEN _handle_coordinator_update(i)[i]
                        ELSE published[i]]
    /\ notified' = [i \in DOMAIN notified |->
                        IF i \in Listeners(e) THEN notified[i] + 1
                        ELSE notified[i]]
    /\ lastRead' = NoRead
    /\ UNCHANGED <<device_info, data, status, add_calls, entities>>

\* The host reads self.native_value.
ReadValue(self) ==
    /\ lastRead' = [entity |-> self, kind |-> "native_value",
                    result |-> native_value(self)]
    /\ UNCHANGED <<device_info, data, status, add_calls, entities,
                   published, notified>>

\* The host reads self.extra_state_attributes.
ReadAttributes(self) ==
    /\ lastRead' = [entity |-> self, kind |-> "extra_state_attributes",
                    result |-> extra_state_attributes(self)]
    /\ UNCHANGED <<device_info, data, status, add_calls, entities,
                   published, notified>>

\* One device, the full range of payloads.
Init == InitWith([{1} -> {DeviceInfo("A1")}])

Next ==
    \/ \E e \in Entries : async_setup_entry(e)
    \/ \E e \in Entries : Refresh(e)
    \/ \E e \in Entries : Notify(e)
    \/ \E self \in DOMAIN entities : ReadValue(self)
    \/ \E self \in DOMAIN entities : ReadAttributes(self)

Spec == Init /\ [][Next]_vars

\* Two devices, a sample payload.  The entries are interchangeable, so the
\* first device's identity is fixed and the second ranges over DeviceInfos.
InitSetup ==
    InitWith({f \in [{1, 2} -> DeviceInfos] : f[1] = DeviceInfo("A1")})

NextSetup ==
    \/ \E e \in Entries : async_setup_entry(e)
    \/ \E e \in Entries : RefreshSample(e)
    \/ \E e \in Entries : Notify(e)
    \/ \E self \in DOMAIN entities : ReadValue(self)
    \/ \E self \in DOMAIN entities : ReadAttributes(self)

SetupSpec == InitSetup /\ [][NextSetup]_vars

(***************************************************************************)
(* Properties.                                                             *)
(***************************************************************************)
DescriptionOf(self) == SENSOR_TYPES[entities[self].entity_description]

SnapshotOf(self) == data[entities[self].coordinator]

IdentOf(self) == device_info[entities[self].coordinator].d["Ident"].s

NumericIndexes == 1..Len(NumericDescriptions)

FlagIndexes == (Len(NumericDescriptions) + 1)..Len(SENSOR_TYPES)

HasSpecialState(snapshot) ==
    /\ snapshot.tag = "dict"
    /\ "SpecialState" \in DOMAIN snapshot.d
    /\ snapshot.d["SpecialState"].tag = "dict"

\* C1: while coordinator.data is None, native_value of every adapter returns
\* the "unknown" value (None) and raises nothing.
C1_UnknownBeforeFirstUpdate ==
    \A self \in DOMAIN entities :
        SnapshotOf(self) = PyNone => native_value(self) = Return(PyNone)

\* C2 as stated: the unique_id is the device's Ident joined with the
\* descriptor's key.
C2_UniqueIdFromKey ==
    \A self \in DOMAIN entities :
        entities[self]._attr_unique_id = IdentOf(self) \o DescriptionOf(self).key

\* C2 as amended: the unique_id is the device's Ident, an underscore and the
\* descriptor's translation_key.
C2_UniqueIdFromTranslationKey ==
    \A self \in DOMAIN entities :
        entities[self]._attr_unique_id =
            IdentOf(self) \o "_" \o DescriptionOf(self).translation_key

C2_Witness ==
    \E self \in DOMAIN entities :
        /\ DescriptionOf(self).key = "storage_dc_power"
        /\ IdentOf(self) = "A1_battery"
        /\ entities[self]._attr_unique_id = "A1_battery_storageDCPower"

\* C3: adapters that differ in device identity or in descriptor have
\* different unique_ids.
C3_UniqueIdInjective ==
    \A a, b \in DOMAIN entities :
        (\/ IdentOf(a) # IdentOf(b)
         \/ entities[a].entity_description # entities[b].entity_description)
        => entities[a]._attr_unique_id # entities[b]._attr_unique_id

C3_Witness ==
    /\ Len(entities) = 2 * Len(SENSOR_TYPES)
    /\ \E a, b \in DOMAIN entities :
        /\ entities[a].entity_description = entities[b].entity_description
        /\ IdentOf(a) = "A1"
        /\ IdentOf(b) = "A1_battery"
        /\ DescriptionOf(a).translation_key = "battery_power"

\* C4: no two descriptors of SENSOR_TYPES share a key, in every state, and
\* every registered adapter refers to a row of that table.
C4_KeysUnique ==
    /\ \A i, j \in DOMAIN SENSOR_TYPES :
        i # j => SENSOR_TYPES[i].key # SENSOR_TYPES[j].key
    /\ \A self \in DOMAIN entities :
        entities[self].entity_description \in 1..22

C4_Witness ==
    /\ Len(SENSOR_TYPES) = 22
    /\ Len(entities) = 22
    /\ \A e \in Entries : data[e] # PyNone /\ status[e] = "loaded"
    /\ \A i \in DOMAIN SENSOR_TYPES :
        \E self \in DOMAIN entities : DescriptionOf(self).key = SENSOR_TYPES[i].key

\* C5: a flag adapter whose SpecialState field (the field named by its key)
\* holds a string returns True exactly when that string is "true".
C5_FlagExactMatch ==
    \A self \in DOMAIN entities :
        LET name == DescriptionOf(self).key
            snapshot == SnapshotOf(self)
        IN  (/\ entities[self].entity_description \in FlagIndexes
             /\ HasSpecialState(snapshot)
             /\ name \in DOMAIN snapshot.d["SpecialState"].d
             /\ snapshot.d["SpecialState"].d[name].tag = "str")
            => native_value(self) =
                 Return(PyBool(snapshot.d["SpecialState"].d[name].s = "true"))

C5_Witness ==
    \E a, b \in DOMAIN entities :
        /\ DescriptionOf(a).key = "islandActive"
        /\ DescriptionOf(b).key = "serviceMode"
        /\ HasSpecialState(SnapshotOf(a))
        /\ HasSpecialState(SnapshotOf(b))
        /\ "islandActive" \in DOMAIN SnapshotOf(a).d["SpecialState"].d
        /\ "serviceMode" \in DOMAIN SnapshotOf(b).d["SpecialState"].d
        /\ SnapshotOf(a).d["SpecialState"].d["islandActive"] = PyStr("True")
        /\ SnapshotOf(b).d["SpecialState"].d["serviceMode"] = PyStr("false")
        /\ native_value(a) = Return(PyBool(FALSE))
        /\ native_value(b) = Return(PyBool(FALSE))
        /\ lastRead.entity = a

\* C6: with a snapshot that has no SpecialState key, every flag adapter
\* raises the missing-key error (KeyError) out of native_value, and every
\* numeric adapter whose field is present still returns its value.
C6_MissingSpecialState ==
    \A self \in DOMAIN entities :
        LET snapshot == SnapshotOf(self)
            d == DescriptionOf(self)
        IN  (snapshot.tag = "dict" /\ "SpecialState" \notin DOMAIN snapshot.d)
            => /\ entities[self].entity_description \in FlagIndexes
                    => native_value(self) = Raise("KeyError")
               /\ (/\ entities[self].entity_description \in NumericIndexes
                   /\ d.path[1] \in DOMAIN snapshot.d)
                    => native_value(self) = Return(snapshot.d[d.path[1]])

C6_Witness ==
    \E a, b \in DOMAIN entities :
        /\ DescriptionOf(a).key = "gridError"
        /\ DescriptionOf(b).key = "gridPower"
        /\ SnapshotOf(a).tag = "dict"
        /\ "SpecialState" \notin DOMAIN SnapshotOf(a).d
        /\ lastRead = [entity |-> a, kind |-> "native_value",
                       result |-> Raise("KeyError")]
        /\ native_value(b) = Return(BaseValue)

\* C7: an adapter has published exactly as often as it has been notified.
C7_PublishPerNotification ==
    \A self \in DOMAIN entities : published[self] = notified[self]

C7_Witness ==
    \E self \in DOMAIN entities :
        /\ notified[self] = MaxNotify
        /\ published[self] = MaxNotify
        /\ SnapshotOf(self) = PyNone

\* C8: a loaded entry has exactly one batch in add_calls, holding one
\* adapter per row of SENSOR_TYPES in table order, all bound to the entry's
\* coordinator, and the host has registered them all; an entry whose setup
\* is pending or failed has no batch and no registered adapter.
BatchesOf(e) ==
    {c \in DOMAIN add_calls :
        \E i \in DOMAIN add_calls[c] : add_calls[c][i].coordinator = e}

C8_OneBatchPerSetup ==
    \A e \in Entries :
        IF status[e] = "loaded"
        THEN /\ Cardinality(BatchesOf(e)) = 1
             /\ \A c \in BatchesOf(e) :
                 /\ Len(add_calls[c]) = Len(SENSOR_TYPES)
                 /\ \A i \in DOMAIN add_calls[c] :
                     /\ add_calls[c][i].entity_description = i
                     /\ add_calls[c][i].coordinator = e
                 /\ \E off \in 0..Len(entities) :
                     \A i \in DOMAIN add_calls[c] :
                         /\ off + i \in DOMAIN entities
                         /\ entities[off + i] = add_calls[c][i]
             /\ Cardinality(Listeners(e)) = Len(SENSOR_TYPES)
        ELSE BatchesOf(e) = {} /\ Listeners(e) = {}

C8_Witness ==
    /\ status[1] = "loaded"
    /\ status[2] = "failed"
    /\ Len(add_calls) = 1
    /\ Len(add_calls[1]) = 22
    /\ Len(entities) = 22

\* C9: a numeric adapter whose source field is in the snapshot returns the
\* value stored under that field, unchanged.
C9_NumericPassthrough ==
    \A self \in DOMAIN entities :
        LET snapshot == SnapshotOf(self)
            field == DescriptionOf(self).path[1]
        IN  (/\ entities[self].entity_description \in NumericIndexes
             /\ snapshot.tag = "dict"
             /\ field \in DOMAIN snapshot.d)
            => native_value(self) = Return(snapshot.d[field])

C9_Witness ==
    \E self \in DOMAIN entities :
        /\ DescriptionOf(self).key = "batteryPower"
        /\ SnapshotOf(self) = PyDict([k \in {"batteryPower"} |-> PyInt(1500)])
        /\ lastRead = [entity |-> self, kind |-> "native_value",
                       result |-> Return(PyInt(1500))]

\* C10: a read returns value_fn (attr_fn for the attributes) of the snapshot
\* the coordinator holds at that moment, and changes nothing but the value
\* handed back.
C10_NoCache ==
    [][lastRead'.entity # 0 =>
        /\ lastRead'.entity \in DOMAIN entities
        /\ lastRead'.result =
             (IF lastRead'.kind = "native_value"
              THEN value_fn(DescriptionOf(lastRead'.entity),
                            SnapshotOf(lastRead'.entity))
              ELSE attr_fn(DescriptionOf(lastRead'.entity),
                           SnapshotOf(lastRead'.entity)))
        /\ UNCHANGED <<device_info, data, status, add_calls, entities,
                       published, notified>>]_vars

C10_Witness ==
    /\ lastRead.entity \in DOMAIN entities
    /\ lastRead.kind = "native_value"
    /\ DescriptionOf(lastRead.entity).key = "mppt1Power"
    /\ notified[lastRead.entity] = 0
    /\ lastRead.result = Return(PyInt(1500))
====
